---- MODULE Spec2Model ----
(***************************************************************************)
(* Model of the word-level diff of src/index.tsx (calculateDiff).          *)
(*                                                                         *)
(* A string is a sequence of one-character strings, so that the regular    *)
(* expression split of the source can be modelled character by character.  *)
(* The source indexes its token arrays from 0 and the table from 0; here   *)
(* token sequences are indexed from 1 (originalWords[i - 1] of the source  *)
(* is originalWords[i] below) and the table keeps the source's indices.    *)
(***************************************************************************)
EXTENDS Integers, Sequences, FiniteSets, TLC

\* ------------------------------------------------------------------ bounds
MaxLen == 3

Alphabet == {"a", "b", " "}

\* ------------------------------------------------------------------ inputs
RECURSIVE StringsUpTo(_)
StringsUpTo(n) ==
    IF n = 0 THEN { <<>> }
    ELSE LET shorter == StringsUpTo(n - 1)
         IN  shorter \cup { Append(s, c) : s \in { t \in shorter : Len(t) = n - 1 }, c \in Alphabet }

Strings == StringsUpTo(MaxLen)

ABC        == <<"a", " ", "b", " ", "c">>
AC         == <<"a", " ", "c">>
TheCatSat  == <<"t", "h", "e", " ", "c", "a", "t", " ", "s", "a", "t">>
TheDogSat  == <<"t", "h", "e", " ", "d", "o", "g", " ", "s", "a", "t">>
HelloWorld == <<"h", "e", "l", "l", "o", " ", "w", "o", "r", "l", "d">>
TabNewline == <<"a", "\t", "\n", "b">>
SpaceOnly  == <<"a", " ", "b">>

ExamplePairs ==
    { <<ABC, AC>>, <<TheCatSat, TheDogSat>>, <<HelloWorld, HelloWorld>>,
      <<TabNewline, SpaceOnly>>, <<TabNewline, TabNewline>> }

InputPairs == (Strings \X Strings) \cup ExamplePairs

\* ------------------------------------------------------- String.split(/(\s+)/)
\* \s of the regular expression, restricted to the characters the inputs use
IsWhitespace(c) == c \in {" ", "\t", "\n"}

\* End (exclusive, 0-based) of the greedy match of \s+ at 0-based position q,
\* or q itself when the pattern does not match there.
RECURSIVE MatchEnd(_, _)
MatchEnd(s, q) ==
    IF q < Len(s) /\ IsWhitespace(s[q + 1]) THEN MatchEnd(s, q + 1) ELSE q

\* Variant: the pattern without its capture group, /\s+/
SplitPiecesNoCapture(s, p, q, e) == << SubSeq(s, p + 1, q) >>

\* The pieces pushed for one match: the substring before it and the capture.
SplitPieces(s, p, q, e) == << SubSeq(s, p + 1, q), SubSeq(s, q + 1, e) >>

\* The split loop: p is the end of the previous match, q the scan position.
RECURSIVE SplitFrom(_, _, _, _)
SplitFrom(s, p, q, acc) ==
    IF q >= Len(s) THEN Append(acc, SubSeq(s, p + 1, Len(s)))
    ELSE LET e == MatchEnd(s, q)
         IN  IF e = q THEN SplitFrom(s, p, q + 1, acc)
             ELSE SplitFrom(s, e, e, acc \o SplitPieces(s, p, q, e))

\* Variant: s.trim().split(/(\s+)/)
RECURSIVE TrimStart(_)
TrimStart(s) == IF s # <<>> /\ IsWhitespace(Head(s)) THEN TrimStart(Tail(s)) ELSE s

RECURSIVE TrimEnd(_)
TrimEnd(s) == IF s # <<>> /\ IsWhitespace(s[Len(s)]) THEN TrimEnd(SubSeq(s, 1, Len(s) - 1)) ELSE s

SplitTrimmed(s) ==
    LET t == TrimEnd(TrimStart(s))
    IN  IF Len(t) = 0 THEN << <<>> >> ELSE SplitFrom(t, 0, 0, <<>>)

\* s.split(/(\s+)/): the empty string gives the one-element array [""]
Split(s) == IF Len(s) = 0 THEN << <<>> >> ELSE SplitFrom(s, 0, 0, <<>>)

\* ------------------------------------------------------------------- state
\* The locals of one invocation of calculateDiff
VARIABLES original, revised, originalWords, revisedWords, matrix, fillI, i, j, result, pc

\* Two invocations run side by side: calls[k] holds the locals of invocation
\* k, the arrays they refer to live in matrices and results (the heap)
VARIABLES calls, matrices, results

diffVars == <<original, revised, originalWords, revisedWords, matrix, fillI, i, j, result, pc>>

callVars == <<calls, matrices, results>>

\* The application of src/index.tsx (component App): app holds the React
\* state, job the analysis request in flight with the values its handler
\* captured, chatJob the chat request in flight, sent the number of requests
\* each provider has received, apiKeys the providers whose key is configured
VARIABLES app, job, chatJob, sent, apiKeys

appVars == <<app, job, chatJob, sent, apiKeys>>

\* The PDF viewer of src/index.tsx (component PDFViewer): pdfFile is the file
\* the App shows ("none" when the viewer is not mounted), scale the zoom state
\* in hundredths (100 is the 1.0 of the source; every value the source can
\* compute is a multiple of 0.25 and exact in floating point), renderedScale
\* the scale of the last render, which the disabled attributes of the zoom
\* buttons come from
VARIABLES pdfFile, scale, renderedScale

pdfVars == <<pdfFile, scale, renderedScale>>

\* The application of src/index.js (its component App): js holds the state
\* of the component, stream the call of handleAiStream in flight with its
\* locals; received (the chunk texts the stream has delivered, empty ones
\* included) and placeholderAt (the position of the entry the call appended
\* to chatHistory) are history variables kept in stream
VARIABLES js, stream

jsVars == <<js, stream>>

\* The application of src/unnamed/part_000 (its component App): part holds
\* the state of the component, partJobs the requests in flight, each with the
\* values its handler captured, partSent the number of requests sent
VARIABLES part, partJobs, partSent

partVars == <<part, partJobs, partSent>>

\* The components modelled apart from calculateDiff and App
restVars == <<pdfVars, jsVars, partVars>>

\* Everything outside the single invocation modelled by diffVars
outsideDiff == <<callVars, appVars, restVars>>

vars == <<diffVars, callVars, appVars, restVars>>

Max(x, y) == IF x >= y THEN x ELSE y

\* Array(n + 1).fill(0).map(() => Array(m + 1).fill(0))
ZeroMatrix(n, m) == [r \in 0..n |-> [c \in 0..m |-> 0]]

\* Variant: a match adds one to the larger neighbour instead of the diagonal
CellValueMaxPlusOne(m, ow, rw, r, c) ==
    IF ow[r] = rw[c] THEN Max(m[r - 1][c], m[r][c - 1]) + 1
    ELSE Max(m[r - 1][c], m[r][c - 1])

\* Variant: the else branch forgets the cell to the left
CellValueNoLeft(m, ow, rw, r, c) ==
    IF ow[r] = rw[c] THEN m[r - 1][c - 1] + 1
    ELSE m[r - 1][c]

\* The value the inner loop body stores in matrix[r][c]
CellValue(m, ow, rw, r, c) ==
    IF ow[r] = rw[c] THEN m[r - 1][c - 1] + 1
    ELSE Max(m[r - 1][c], m[r][c - 1])

\* The inner loop: for (let j = c; j <= revisedWords.length; j++)
RECURSIVE FillRowFrom(_, _, _, _, _)
FillRowFrom(m, ow, rw, r, c) ==
    IF c > Len(rw) THEN m
    ELSE FillRowFrom([m EXCEPT ![r][c] = CellValue(m, ow, rw, r, c)], ow, rw, r, c + 1)

\* Variant: while (i > 0 && j > 0)
LoopContinuesAnd(a, b) == IF a > 0 THEN b > 0 ELSE FALSE

\* The loop condition: while (i > 0 || j > 0)
LoopContinues(a, b) == IF a > 0 THEN TRUE ELSE b > 0

\* Variant: the index bounds of the common branch are off by one
IsCommonOffByOne(ow, rw, a, b) == a > 1 /\ b > 1 /\ ow[a] = rw[b]

\* Variant: the added branch compares with > instead of >=
TakeAddedStrict(m, a, b) == b > 0 /\ (IF a = 0 THEN TRUE ELSE m[a][b - 1] > m[a - 1][b])

\* The guards of the three branches of the backtrack loop, in source order
IsCommon(ow, rw, a, b) == a > 0 /\ b > 0 /\ ow[a] = rw[b]

TakeAdded(m, a, b) == b > 0 /\ (IF a = 0 THEN TRUE ELSE m[a][b - 1] >= m[a - 1][b])

\* Variant: the removed branch without its j === 0 case
TakeRemovedInside(m, a, b) == a > 0 /\ b > 0 /\ m[a][b - 1] < m[a - 1][b]

TakeRemoved(m, a, b) == a > 0 /\ (IF b = 0 THEN TRUE ELSE m[a][b - 1] < m[a - 1][b])

\* Variants: a branch labels its segment with the type of the other branch
AddedSegmentMislabelled(ow, rw, a, b)   == [value |-> rw[b], type |-> "removed"]

RemovedSegmentMislabelled(ow, rw, a, b) == [value |-> ow[a], type |-> "added"]

\* The segments the three branches put at the front of result
CommonSegment(ow, rw, a, b)  == [value |-> ow[a], type |-> "common"]

AddedSegment(ow, rw, a, b)   == [value |-> rw[b], type |-> "added"]

RemovedSegment(ow, rw, a, b) == [value |-> ow[a], type |-> "removed"]

\* Variant: a segment of the same type as the first one is merged into it
UnshiftMerging(seg, res) ==
    IF res # <<>> /\ Head(res).type = seg.type
    THEN <<[value |-> seg.value \o Head(res).value, type |-> seg.type]>> \o Tail(res)
    ELSE <<seg>> \o res

\* Variant: result.push(seg)
Push(seg, res) == Append(res, seg)

\* result.unshift(seg)
Unshift(seg, res) == <<seg>> \o res

\* ----------------------------------------------------------------- actions
\* ------------------------------------------------- the application state
Providers == {"gemini", "openai", "deepseek"}

\* null as the value of error and of mode
Null == "null"

\* null as the value of analysisResult, and the empty object {}
NoResult == [type |-> "null"]

EmptyResults == [p \in {} |-> NoResult]

\* useState initial values, lines 261-288
AppInitial ==
    [text |-> <<>>, isLoading |-> FALSE, error |-> Null, mode |-> Null,
     analysisResult |-> NoResult, multiAnalysisResults |-> EmptyResults,
     editableRevisedText |-> <<>>, isModalOpen |-> FALSE,
     chatHistory |-> <<>>, chatInput |-> <<>>, isChatLoading |-> FALSE,
     lastPastedTextRef |-> <<>>, isDiffView |-> FALSE,
     originalTextForDiff |-> <<>>, modelProvider |-> "gemini"]

NoJob == [kind |-> "none"]

\* The application is not running
AppIdle ==
    /\ app = AppInitial
    /\ job = NoJob
    /\ chatJob = NoJob
    /\ sent = [p \in Providers |-> 0]
    /\ apiKeys = {}

\* lines 97-99 and the initial value of line 94
ZOOM_STEP == 25

MIN_ZOOM == 50

MAX_ZOOM == 250

InitialScale == 100

\* No PDF is open: the viewer is not mounted
PdfIdle ==
    /\ pdfFile = "none"
    /\ scale = InitialScale
    /\ renderedScale = InitialScale

\* useState initial values of src/index.js, lines 12-26
JsInitial ==
    [ai |-> FALSE, isLoading |-> FALSE, isChatting |-> FALSE, inputText |-> <<>>,
     outputText |-> <<>>, chatHistory |-> <<>>, chatInput |-> <<>>]

NoStream == [status |-> "idle", started |-> 0]

\* src/index.js is not running
JsIdle ==
    /\ js = JsInitial
    /\ stream = NoStream

\* useState initial values of src/unnamed/part_000, lines 13-21; chat is 0
\* for null and otherwise the number of the request that created the chat
PartInitial ==
    [activeTab |-> "writing", userInput |-> <<>>, aiOutput |-> <<>>, isLoading |-> FALSE,
     chatHistory |-> <<>>, chatMessage |-> <<>>, chat |-> 0]

\* src/unnamed/part_000 is not running
PartIdle ==
    /\ part = PartInitial
    /\ partJobs = {}
    /\ partSent = 0

RestIdle == PdfIdle /\ JsIdle /\ PartIdle

\* The locals of an invocation before its first statement
NotStarted(p) ==
    [original |-> p[1], revised |-> p[2], originalWords |-> <<>>, revisedWords |-> <<>>,
     matrix |-> 0, fillI |-> 1, i |-> 0, j |-> 0, result |-> 0, pc |-> "start"]

CallIds == {1, 2}

\* No second invocation is running
CallsIdle ==
    /\ calls = [k \in CallIds |-> NotStarted(<< <<>>, <<>> >>)]
    /\ matrices = <<>>
    /\ results = <<>>

Init ==
    /\ \E p \in InputPairs : original = p[1] /\ revised = p[2]
    /\ originalWords = <<>>
    /\ revisedWords = <<>>
    /\ matrix = ZeroMatrix(0, 0)
    /\ fillI = 1
    /\ i = 0
    /\ j = 0
    /\ result = <<>>
    /\ pc = "start"
    /\ CallsIdle
    /\ AppIdle
    /\ RestIdle

\* lines 37-40: tokenize both inputs and allocate the table
Tokenize ==
    /\ pc = "start"
    /\ originalWords' = Split(original)
    /\ revisedWords' = Split(revised)
    /\ matrix' = ZeroMatrix(Len(Split(original)), Len(Split(revised)))
    /\ fillI' = 1
    /\ pc' = "fill"
    /\ UNCHANGED <<original, revised, i, j, result>>
    /\ UNCHANGED outsideDiff

\* lines 42-50: one iteration of the outer loop of the table fill
FillRow ==
    /\ pc = "fill"
    /\ fillI <= Len(originalWords)
    /\ matrix' = FillRowFrom(matrix, originalWords, revisedWords, fillI, 1)
    /\ fillI' = fillI + 1
    /\ UNCHANGED <<original, revised, originalWords, revisedWords, i, j, result, pc>>
    /\ UNCHANGED outsideDiff

\* lines 42, 52-54: the outer loop ends; the backtrack starts at the last cell
StartBacktrack ==
    /\ pc = "fill"
    /\ fillI > Len(originalWords)
    /\ result' = <<>>
    /\ i' = Len(originalWords)
    /\ j' = Len(revisedWords)
    /\ pc' = "backtrack"
    /\ UNCHANGED <<original, revised, originalWords, revisedWords, matrix, fillI>>
    /\ UNCHANGED outsideDiff

\* lines 57-60
BacktrackCommon ==
    /\ pc = "backtrack"
    /\ LoopContinues(i, j)
    /\ IsCommon(originalWords, revisedWords, i, j)
    /\ result' = Unshift(CommonSegment(originalWords, revisedWords, i, j), result)
    /\ i' = i - 1
    /\ j' = j - 1
    /\ UNCHANGED <<original, revised, originalWords, revisedWords, matrix, fillI, pc>>
    /\ UNCHANGED outsideDiff

\* lines 61-63
BacktrackAdded ==
    /\ pc = "backtrack"
    /\ LoopContinues(i, j)
    /\ ~IsCommon(originalWords, revisedWords, i, j)
    /\ TakeAdded(matrix, i, j)
    /\ result' = Unshift(AddedSegment(originalWords, revisedWords, i, j), result)
    /\ j' = j - 1
    /\ UNCHANGED <<original, revised, originalWords, revisedWords, matrix, fillI, i, pc>>
    /\ UNCHANGED outsideDiff

\* lines 64-66
BacktrackRemoved ==
    /\ pc = "backtrack"
    /\ LoopContinues(i, j)
    /\ ~IsCommon(originalWords, revisedWords, i, j)
    /\ ~TakeAdded(matrix, i, j)
    /\ TakeRemoved(matrix, i, j)
    /\ result' = Unshift(RemovedSegment(originalWords, revisedWords, i, j), result)
    /\ i' = i - 1
    /\ UNCHANGED <<original, revised, originalWords, revisedWords, matrix, fillI, j, pc>>
    /\ UNCHANGED outsideDiff

\* lines 56, 67-72: the loop condition fails, or the fallback branch breaks;
\* either way the function returns result
Return ==
    /\ pc = "backtrack"
    /\ IF LoopContinues(i, j)
       THEN /\ ~IsCommon(originalWords, revisedWords, i, j)
            /\ ~TakeAdded(matrix, i, j)
            /\ ~TakeRemoved(matrix, i, j)
       ELSE TRUE
    /\ pc' = IF LoopContinues(i, j) THEN "fallback" ELSE "done"
    /\ UNCHANGED <<original, revised, originalWords, revisedWords, matrix, fillI, i, j, result>>
    /\ UNCHANGED outsideDiff

Next ==
    \/ Tokenize
    \/ FillRow
    \/ StartBacktrack
    \/ BacktrackCommon
    \/ BacktrackAdded
    \/ BacktrackRemoved
    \/ Return

\* calculateDiff is synchronous: once called it runs to its return
LiveSpec == Init /\ [][Next]_vars /\ WF_vars(Next)

Spec == Init /\ [][Next]_vars

\* calculateDiff has returned (by loop exit or by the fallback break)
Returned == pc \in {"done", "fallback"}

\* ------------------------------------------- two invocations side by side
MaxLenTwoCalls == 1

\* Inputs of the first invocation, and of the second given the first's
FirstCallPairs == StringsUpTo(MaxLenTwoCalls) \X StringsUpTo(MaxLenTwoCalls)

SecondCallPairs(p) == { p, <<p[2], p[1]>>, <<AC, ABC>>, <<SpaceOnly, <<>> >> }

\* Array(...): a new array object, at an address no object has yet
NewMatrix(h) == Len(h) + 1

\* Variant: the result array is one module-level array used by every call
NewResultShared(h) == 1

\* const result = []: a new array object
NewResult(h) == Len(h) + 1

\* Write object v at address a of heap h
Store(h, a, v) == IF a > Len(h) THEN Append(h, v) ELSE [h EXCEPT ![a] = v]

\* lines 37-40
CallTokenize(k) ==
    LET c  == calls[k]
        ow == Split(c.original)
        rw == Split(c.revised)
        a  == NewMatrix(matrices)
    IN  /\ c.pc = "start"
        /\ matrices' = Store(matrices, a, ZeroMatrix(Len(ow), Len(rw)))
        /\ calls' = [calls EXCEPT ![k] =
                        [c EXCEPT !.originalWords = ow, !.revisedWords = rw,
                                  !.matrix = a, !.fillI = 1, !.pc = "fill"]]
        /\ UNCHANGED <<results, diffVars, appVars, restVars>>

\* lines 42-50
CallFillRow(k) ==
    LET c == calls[k]
    IN  /\ c.pc = "fill"
        /\ c.fillI <= Len(c.originalWords)
        /\ matrices' = Store(matrices, c.matrix,
                             FillRowFrom(matrices[c.matrix], c.originalWords, c.revisedWords, c.fillI, 1))
        /\ calls' = [calls EXCEPT ![k] = [c EXCEPT !.fillI = c.fillI + 1]]
        /\ UNCHANGED <<results, diffVars, appVars, restVars>>

\* lines 42, 52-54
CallStartBacktrack(k) ==
    LET c == calls[k]
        a == NewResult(results)
    IN  /\ c.pc = "fill"
        /\ c.fillI > Len(c.originalWords)
        /\ results' = Store(results, a, <<>>)
        /\ calls' = [calls EXCEPT ![k] =
                        [c EXCEPT !.result = a, !.i = Len(c.originalWords),
                                  !.j = Len(c.revisedWords), !.pc = "backtrack"]]
        /\ UNCHANGED <<matrices, diffVars, appVars, restVars>>

\* lines 57-60
CallBacktrackCommon(k) ==
    LET c == calls[k]
    IN  /\ c.pc = "backtrack"
        /\ LoopContinues(c.i, c.j)
        /\ IsCommon(c.originalWords, c.revisedWords, c.i, c.j)
        /\ results' = Store(results, c.result,
                            Unshift(CommonSegment(c.originalWords, c.revisedWords, c.i, c.j), results[c.result]))
        /\ calls' = [calls EXCEPT ![k] = [c EXCEPT !.i = c.i - 1, !.j = c.j - 1]]
        /\ UNCHANGED <<matrices, diffVars, appVars, restVars>>

\* lines 61-63
CallBacktrackAdded(k) ==
    LET c == calls[k]
    IN  /\ c.pc = "backtrack"
        /\ LoopContinues(c.i, c.j)
        /\ ~IsCommon(c.originalWords, c.revisedWords, c.i, c.j)
        /\ TakeAdded(matrices[c.matrix], c.i, c.j)
        /\ results' = Store(results, c.result,
                            Unshift(AddedSegment(c.originalWords, c.revisedWords, c.i, c.j), results[c.result]))
        /\ calls' = [calls EXCEPT ![k] = [c EXCEPT !.j = c.j - 1]]
        /\ UNCHANGED <<matrices, diffVars, appVars, restVars>>

\* lines 64-66
CallBacktrackRemoved(k) ==
    LET c == calls[k]
    IN  /\ c.pc = "backtrack"
        /\ LoopContinues(c.i, c.j)
        /\ ~IsCommon(c.originalWords, c.revisedWords, c.i, c.j)
        /\ ~TakeAdded(matrices[c.matrix], c.i, c.j)
        /\ TakeRemoved(matrices[c.matrix], c.i, c.j)
        /\ results' = Store(results, c.result,
                            Unshift(RemovedSegment(c.originalWords, c.revisedWords, c.i, c.j), results[c.result]))
        /\ calls' = [calls EXCEPT ![k] = [c EXCEPT !.i = c.i - 1]]
        /\ UNCHANGED <<matrices, diffVars, appVars, restVars>>

\* lines 56, 67-72
CallReturn(k) ==
    LET c == calls[k]
    IN  /\ c.pc = "backtrack"
        /\ IF LoopContinues(c.i, c.j)
           THEN /\ ~IsCommon(c.originalWords, c.revisedWords, c.i, c.j)
                /\ ~TakeAdded(matrices[c.matrix], c.i, c.j)
                /\ ~TakeRemoved(matrices[c.matrix], c.i, c.j)
           ELSE TRUE
        /\ calls' = [calls EXCEPT ![k] =
                        [c EXCEPT !.pc = IF LoopContinues(c.i, c.j) THEN "fallback" ELSE "done"]]
        /\ UNCHANGED <<matrices, results, diffVars, appVars, restVars>>

\* The single invocation of diffVars is not running
DiffIdle ==
    /\ original = <<>>
    /\ revised = <<>>
    /\ originalWords = <<>>
    /\ revisedWords = <<>>
    /\ matrix = ZeroMatrix(0, 0)
    /\ fillI = 1
    /\ i = 0
    /\ j = 0
    /\ result = <<>>
    /\ pc = "start"

TwoCallsInit ==
    /\ DiffIdle
    /\ \E p \in FirstCallPairs : \E q \in SecondCallPairs(p) :
          calls = [k \in CallIds |-> IF k = 1 THEN NotStarted(p) ELSE NotStarted(q)]
    /\ matrices = <<>>
    /\ results = <<>>
    /\ AppIdle
    /\ RestIdle

TwoCallsNext ==
    \/ \E k \in CallIds : CallTokenize(k)
    \/ \E k \in CallIds : CallFillRow(k)
    \/ \E k \in CallIds : CallStartBacktrack(k)
    \/ \E k \in CallIds : CallBacktrackCommon(k)
    \/ \E k \in CallIds : CallBacktrackAdded(k)
    \/ \E k \in CallIds : CallBacktrackRemoved(k)
    \/ \E k \in CallIds : CallReturn(k)

TwoCallsSpec == TwoCallsInit /\ [][TwoCallsNext]_vars

\* ---------------------------------------------------------- the application
\* The total number of requests the providers may receive
MaxRequests == 2

\* What the user types in the workspace, and what the clipboard may hold
Texts == { <<>>, <<"y", "\n">> }

ClipboardTexts == { <<>>, <<"x">>, <<"y", "\r", "\n">> }

\* What the user types in the chat input and in the result text area
ChatInputs == { <<"q">> }

RevisedEdits == { <<"u">> }

\* The radio buttons the user presses: one provider of each key configuration
SelectedProviders == { "gemini", "openai" }

\* The sets of providers whose API key is configured
KeyConfigs == { {}, {"gemini"}, {"openai", "deepseek"} }

\* Response texts of a structured request: a JSON object with every required
\* field, the same inside a markdown fence, a JSON object lacking a required
\* field, text that is not JSON, and the empty text
FullJson    == <<"{full}">>
FencedJson  == <<"[fence json]", "{full}", "[fence]">>
PartJson    == <<"{part}">>
NotJson     == <<"sorry">>
EmptyText   == <<>>

StructuredResponses == { FullJson, FencedJson, PartJson, NotJson, EmptyText }

ChatResponses == { <<"r">>, EmptyText }

Pending        == [status |-> "pending"]
Fulfilled(t)   == [status |-> "fulfilled", value |-> t]
Rejected(why)  == [status |-> "rejected", reason |-> why]

\* Error messages
ApiKeyError(p) ==
    CASE p = "gemini" -> "noKey(GEMINI)"
      [] p = "openai" -> "noKey(OPENAI)"
      [] p = "deepseek" -> "noKey(DEEPSEEK)"

ApiError            == "apiError"
EmptyResponseError  == "emptyResponse"
InvalidFormatError  == "invalidFormat"
IncompleteError     == "invalidOrIncomplete"
ChatFailedError     == "chatFailed"
ChatFailedText      == <<"chatFailed">>

\* line 33: str.replace(/\r\n/g, '\n')
RECURSIVE normalizeLineEndings(_)
normalizeLineEndings(str) ==
    IF str = <<>> THEN <<>>
    ELSE IF Len(str) >= 2 /\ str[1] = "\r" /\ str[2] = "\n"
         THEN <<"\n">> \o normalizeLineEndings(SubSeq(str, 3, Len(str)))
    ELSE <<Head(str)>> \o normalizeLineEndings(Tail(str))

\* line 296
isApiKeyInvalid(keys, provider) == provider \notin keys

\* lines 300-309
resetForNewText(a, newText) ==
    [a EXCEPT !.text = newText, !.analysisResult = NoResult,
              !.multiAnalysisResults = EmptyResults, !.editableRevisedText = <<>>,
              !.chatHistory = <<>>, !.mode = Null, !.isDiffView = FALSE,
              !.lastPastedTextRef = normalizeLineEndings(newText)]

\* lines 348-356
resetStateForAnalysis(a) ==
    [a EXCEPT !.isLoading = TRUE, !.error = Null, !.analysisResult = NoResult,
              !.multiAnalysisResults = EmptyResults, !.editableRevisedText = <<>>,
              !.chatHistory = <<>>, !.isDiffView = FALSE]

\* lines 358-420: one request goes to the provider
callGenerativeAi(s, provider) == [s EXCEPT ![provider] = @ + 1]

\* str.trim()
Trim(str) == TrimEnd(TrimStart(str))

\* line 461: the two replace calls that remove a leading and a trailing fence
StripFences(str) ==
    LET noHead == IF str # <<>> /\ Head(str) = "[fence json]" THEN Tail(str) ELSE str
    IN  IF noHead # <<>> /\ noHead[Len(noHead)] = "[fence]"
        THEN SubSeq(noHead, 1, Len(noHead) - 1) ELSE noHead

\* JSON.parse: the object, or a SyntaxError
SyntaxError == [type |-> "SyntaxError"]

WritingObject(last) ==
    [type |-> "object", grammar |-> "string", typos |-> "string", logic |-> "string", revisedText |-> last]

NoteObject(first) ==
    [type |-> "object", title |-> first, summary |-> "string", organizedPoints |-> "string", combinedText |-> "string"]

JsonParse(str, mode) ==
    IF str = FullJson THEN (IF mode = "writing" THEN WritingObject("string") ELSE NoteObject("string"))
    ELSE IF str = PartJson THEN (IF mode = "writing" THEN WritingObject("undefined") ELSE NoteObject("undefined"))
    ELSE SyntaxError

\* lines 458-475: the entry of newResults for one settled promise
WritingEntry(outcome) ==
    IF outcome.status = "fulfilled"
    THEN LET parsed == JsonParse(StripFences(Trim(outcome.value)), "writing")
         IN  IF parsed = SyntaxError THEN [error |-> IncompleteError]
             ELSE IF parsed.grammar = "string" /\ parsed.typos = "string"
                     /\ parsed.logic = "string" /\ parsed.revisedText = "string"
                  THEN parsed
             ELSE [error |-> IncompleteError]
    ELSE [error |-> outcome.reason]

\* line 517 and lines 520-523
FinalContent(parsed, text) == <<"note", parsed.title>> \o text

InitialHistory(parsed, text) ==
    << [role |-> "user", text |-> <<"info">> \o text],
       [role |-> "model", text |-> <<"organized", parsed.title>>] >>

\* lines 544-549
chatSeparator == <<"--- chat ---">>

thinkingMessage == <<".", ".", ".">>

Includes(str, atom) == \E k \in 1..Len(str) : str[k] = atom

\* prev.slice(0, -n)
SliceOff(str, n) == IF Len(str) > n THEN SubSeq(str, 1, Len(str) - n) ELSE <<>>

TotalSent == sent["gemini"] + sent["openai"] + sent["deepseek"]

World == [app |-> app, job |-> job, chatJob |-> chatJob, sent |-> sent]

\* ---------------------------------------------------------------- handlers
\* Each handler maps the world (app, job, chatJob, sent) to the world after it

\* The state values of the render in which a handler was created, as far as
\* the handler or a statement about it refers to them
Captured(a) ==
    [text |-> a.text, analysisResult |-> a.analysisResult,
     multiAnalysisResults |-> a.multiAnalysisResults,
     editableRevisedText |-> a.editableRevisedText,
     chatHistory |-> a.chatHistory, isDiffView |-> a.isDiffView]

\* lines 423-451: up to the await of Promise.allSettled
handleGetWritingSuggestions(w, keys) ==
    IF w.app.text = <<>> THEN w
    ELSE [w EXCEPT
            !.app = [resetStateForAnalysis(w.app) EXCEPT
                        !.mode = "writing", !.originalTextForDiff = w.app.text, !.isLoading = TRUE],
            !.job = [kind |-> "writing", captured |-> Captured(w.app),
                     outcomes |-> [p \in Providers |->
                                     IF isApiKeyInvalid(keys, p) THEN Rejected(ApiKeyError(p)) ELSE Pending]],
            !.sent = [p \in Providers |->
                        IF isApiKeyInvalid(keys, p) THEN w.sent[p] ELSE callGenerativeAi(w.sent, p)[p]]]

\* Variant: one failed provider turns every entry into its error
writingSuggestionsSettledAllOrNothing(w) ==
    [w EXCEPT
        !.app = [w.app EXCEPT
                    !.multiAnalysisResults =
                        IF \E q \in Providers : "error" \in DOMAIN WritingEntry(w.job.outcomes[q])
                        THEN LET q == CHOOSE q \in Providers : "error" \in DOMAIN WritingEntry(w.job.outcomes[q])
                             IN  [p \in Providers |-> WritingEntry(w.job.outcomes[q])]
                        ELSE [p \in Providers |-> WritingEntry(w.job.outcomes[p])],
                    !.isLoading = FALSE],
        !.job = NoJob]

\* lines 453-485: after the await
writingSuggestionsSettled(w) ==
    [w EXCEPT
        !.app = [w.app EXCEPT
                    !.multiAnalysisResults = [p \in Providers |-> WritingEntry(w.job.outcomes[p])],
                    !.isLoading = FALSE],
        !.job = NoJob]

\* lines 488-492
handleOrganizeNotesClick(w) ==
    IF w.app.text = <<>> THEN w
    ELSE [w EXCEPT !.app = [w.app EXCEPT !.isModalOpen = TRUE]]

\* lines 494-505: up to the await of callGenerativeAi
handleProceedWithOrganization(w, keys) ==
    IF isApiKeyInvalid(keys, w.app.modelProvider)
    THEN [w EXCEPT !.app = [w.app EXCEPT !.error = ApiKeyError(w.app.modelProvider), !.isModalOpen = FALSE]]
    ELSE IF w.app.text = <<>> THEN w
    ELSE [w EXCEPT
            !.app = [resetStateForAnalysis([w.app EXCEPT !.isModalOpen = FALSE]) EXCEPT !.mode = "notes"],
            !.job = [kind |-> "notes", captured |-> Captured(w.app),
                     outcomes |-> [p \in {w.app.modelProvider} |-> Pending]],
            !.sent = callGenerativeAi(w.sent, w.app.modelProvider)]

\* Variant: the catch block also leaves the notes mode
organizationFailedLeavingMode(w, message) ==
    [w EXCEPT !.app = [w.app EXCEPT !.error = message, !.isLoading = FALSE, !.mode = Null],
              !.job = NoJob]

\* Variant: the catch block sends the request once more
organizationFailedRetrying(w, message) ==
    [w EXCEPT !.app = [w.app EXCEPT !.error = message],
              !.job = [w.job EXCEPT !.outcomes = [p \in DOMAIN w.job.outcomes |-> Pending]],
              !.sent = callGenerativeAi(w.sent, CHOOSE p \in DOMAIN w.job.outcomes : TRUE)]

\* lines 526-532: catch and finally
organizationFailed(w, message) ==
    [w EXCEPT !.app = [w.app EXCEPT !.error = message, !.isLoading = FALSE],
              !.job = NoJob]

\* lines 516-524 and 530-532: the parsed result is stored
organizationSucceeded(w, parsed) ==
    [w EXCEPT
        !.app = [w.app EXCEPT
                    !.analysisResult = parsed,
                    !.editableRevisedText = FinalContent(parsed, w.job.captured.text),
                    !.chatHistory = InitialHistory(parsed, w.job.captured.text),
                    !.isLoading = FALSE],
        !.job = NoJob]

\* lines 505-533: after the await
organizationSettled(w) ==
    LET outcome == w.job.outcomes[CHOOSE p \in DOMAIN w.job.outcomes : TRUE]
    IN  IF outcome.status = "rejected" THEN organizationFailed(w, outcome.reason)
        ELSE IF outcome.value = <<>> THEN organizationFailed(w, EmptyResponseError)
        ELSE LET parsed == JsonParse(Trim(outcome.value), "notes")
             IN  IF parsed = SyntaxError THEN organizationFailed(w, InvalidFormatError)
                 ELSE organizationSucceeded(w, parsed)

\* lines 536-563: up to the await of callGenerativeAi
handleSendChatMessage(w) ==
    IF Trim(w.app.chatInput) = <<>> \/ w.app.chatHistory = <<>> \/ w.app.isChatLoading THEN w
    ELSE LET userMessage == w.app.chatInput
             isFirstChatMessage == ~Includes(w.app.editableRevisedText, chatSeparator[1])
             prefix == IF isFirstChatMessage THEN chatSeparator ELSE <<"\n", "\n">>
             fullUserAndLoadingMessage ==
                 prefix \o <<"[me]">> \o userMessage \o <<"[ai]">> \o thinkingMessage
         IN  [w EXCEPT
                !.app = [w.app EXCEPT
                            !.chatInput = <<>>, !.isDiffView = FALSE,
                            !.editableRevisedText = @ \o fullUserAndLoadingMessage,
                            !.chatHistory = w.app.chatHistory \o <<[role |-> "user", text |-> userMessage]>>,
                            !.isChatLoading = TRUE, !.error = Null],
                !.chatJob = [kind |-> "chat", captured |-> Captured(w.app), outcome |-> Pending],
                !.sent = callGenerativeAi(w.sent, w.app.modelProvider)]

\* Variant: the catch block takes the user's message back out of chatHistory
chatFailedRollingBack(w) ==
    [w EXCEPT
        !.app = [w.app EXCEPT
                    !.editableRevisedText = SliceOff(@, Len(thinkingMessage)) \o ChatFailedText,
                    !.chatHistory = SliceOff(@, 1),
                    !.error = ChatFailedError, !.isChatLoading = FALSE],
        !.chatJob = NoJob]

\* lines 569-576: catch and finally
chatFailed(w) ==
    [w EXCEPT
        !.app = [w.app EXCEPT
                    !.editableRevisedText = SliceOff(@, Len(thinkingMessage)) \o ChatFailedText,
                    !.error = ChatFailedError, !.isChatLoading = FALSE],
        !.chatJob = NoJob]

\* Variant: the finally block is missing on the success path
chatSucceededStillLoading(w, aiMessageContent) ==
    [w EXCEPT
        !.app = [w.app EXCEPT
                    !.editableRevisedText = SliceOff(@, Len(thinkingMessage)) \o aiMessageContent,
                    !.chatHistory = @ \o <<[role |-> "model", text |-> aiMessageContent]>>],
        !.chatJob = NoJob]

\* lines 567-568 and 574-576
chatSucceeded(w, aiMessageContent) ==
    [w EXCEPT
        !.app = [w.app EXCEPT
                    !.editableRevisedText = SliceOff(@, Len(thinkingMessage)) \o aiMessageContent,
                    !.chatHistory = @ \o <<[role |-> "model", text |-> aiMessageContent]>>,
                    !.isChatLoading = FALSE],
        !.chatJob = NoJob]

\* lines 563-577: after the await
chatSettled(w) ==
    LET outcome == w.chatJob.outcome
    IN  IF outcome.status = "rejected" THEN chatFailed(w)
        ELSE IF outcome.value = <<>> THEN chatFailed(w)
        ELSE chatSucceeded(w, outcome.value)

\* ----------------------------------------------------- application actions
Becomes(w) ==
    /\ app' = w.app
    /\ job' = w.job
    /\ chatJob' = w.chatJob
    /\ sent' = w.sent
    /\ UNCHANGED <<apiKeys, diffVars, callVars, restVars>>

\* lines 680, 683: the two analysis buttons are enabled
AnalysisButtonsEnabled == app.text # <<>> /\ ~app.isLoading /\ ~app.isModalOpen

\* line 713: the result area of the notes mode is rendered
ResultAreaShown == ~app.isLoading /\ app.mode = "notes" /\ app.analysisResult # NoResult

\* line 733: the chat form is rendered
ChatFormShown == ResultAreaShown /\ app.chatHistory # <<>>

\* What a provider may answer to a structured request
StructuredOutcomes == { Fulfilled(t) : t \in StructuredResponses } \cup { Rejected(ApiError) }

ChatOutcomes == { Fulfilled(t) : t \in ChatResponses } \cup { Rejected(ApiError) }

AppInit ==
    /\ app = AppInitial
    /\ job = NoJob
    /\ chatJob = NoJob
    /\ sent = [p \in Providers |-> 0]
    /\ apiKeys \in KeyConfigs
    /\ DiffIdle
    /\ CallsIdle
    /\ RestIdle

\* line 652: the user edits the workspace text
SetText ==
    /\ ~app.isLoading
    /\ ~app.isModalOpen
    /\ \E t \in Texts : Becomes([World EXCEPT !.app.text = t])

\* lines 665-673: the user selects the model of the notes mode
SetModelProvider ==
    /\ ~app.isLoading
    /\ ~app.isModalOpen
    /\ \E p \in SelectedProviders : Becomes([World EXCEPT !.app.modelProvider = p])

\* lines 317-331: the clipboard poll finds a new text
ClipboardCheck ==
    /\ ~app.isModalOpen
    /\ \E clipboardText \in ClipboardTexts :
          /\ normalizeLineEndings(clipboardText) # <<>>
          /\ normalizeLineEndings(clipboardText) # app.lastPastedTextRef
          /\ normalizeLineEndings(clipboardText) # normalizeLineEndings(app.text)
          /\ Becomes([World EXCEPT !.app = resetForNewText(app, clipboardText)])

\* lines 423-451; when no provider has a key every promise is rejected at
\* once and the handler continues (lines 453-485) before any other event
GetWritingSuggestions ==
    /\ AnalysisButtonsEnabled
    /\ TotalSent < MaxRequests
    /\ LET started == handleGetWritingSuggestions(World, apiKeys)
       IN  IF \A p \in Providers : started.job.outcomes[p] # Pending
           THEN Becomes(writingSuggestionsSettled(started))
           ELSE Becomes(started)

\* lines 488-492
OrganizeNotesClick ==
    /\ AnalysisButtonsEnabled
    /\ Becomes(handleOrganizeNotesClick(World))

\* line 630
CancelModal ==
    /\ app.isModalOpen
    /\ Becomes([World EXCEPT !.app.isModalOpen = FALSE])

\* lines 494-505, button of line 631
ProceedWithOrganization ==
    /\ app.isModalOpen
    /\ TotalSent < MaxRequests
    /\ Becomes(handleProceedWithOrganization(World, apiKeys))

\* lines 375-418 and 453-485: a provider answers a request of the writing
\* analysis in flight; when it is the last one, Promise.allSettled resolves
\* and the handler continues at once
WritingProviderSettles ==
    /\ job # NoJob
    /\ job.kind = "writing"
    /\ \E p \in DOMAIN job.outcomes : \E outcome \in StructuredOutcomes :
          /\ job.outcomes[p] = Pending
          /\ LET settled == [World EXCEPT !.job.outcomes[p] = outcome]
             IN  IF \A o \in DOMAIN job.outcomes : settled.job.outcomes[o] # Pending
                 THEN Becomes(writingSuggestionsSettled(settled))
                 ELSE Becomes(settled)

\* lines 375-418 and 505-533: the provider answers the request of the notes
\* analysis in flight and the handler continues
OrganizationSettled ==
    /\ job # NoJob
    /\ job.kind = "notes"
    /\ \E p \in DOMAIN job.outcomes : \E outcome \in StructuredOutcomes :
          Becomes(organizationSettled([World EXCEPT !.job.outcomes[p] = outcome]))

\* line 735
SetChatInput ==
    /\ ChatFormShown
    /\ ~app.isChatLoading
    /\ \E m \in ChatInputs : Becomes([World EXCEPT !.app.chatInput = m])

\* lines 536-563, form of line 734
SendChatMessage ==
    /\ ChatFormShown
    /\ Trim(app.chatInput) # <<>>
    /\ ~app.isChatLoading
    /\ TotalSent < MaxRequests
    /\ Becomes(handleSendChatMessage(World))

\* lines 375-418 and 563-577: the provider answers the chat request in
\* flight and the handler continues
ChatSettled ==
    /\ chatJob # NoJob
    /\ \E outcome \in ChatOutcomes :
          Becomes(chatSettled([World EXCEPT !.chatJob.outcome = outcome]))

\* line 723: the user edits the result text area
SetEditableRevisedText ==
    /\ ResultAreaShown
    /\ ~app.isDiffView
    /\ \E t \in RevisedEdits : Becomes([World EXCEPT !.app.editableRevisedText = t])

AppNext ==
    \/ SetText
    \/ SetModelProvider
    \/ ClipboardCheck
    \/ GetWritingSuggestions
    \/ OrganizeNotesClick
    \/ CancelModal
    \/ ProceedWithOrganization
    \/ WritingProviderSettles
    \/ OrganizationSettled
    \/ SetChatInput
    \/ SendChatMessage
    \/ ChatSettled
    \/ SetEditableRevisedText

AppSpec == AppInit /\ [][AppNext]_vars

\* The AI service answers or rejects every request it has received, so the
\* continuation of every handler that awaits it runs
LiveAppSpec ==
    /\ AppInit
    /\ [][AppNext]_vars
    /\ WF_vars(WritingProviderSettles)
    /\ WF_vars(OrganizationSettled)
    /\ WF_vars(ChatSettled)

\* ------------------------------------------------------------ PDF viewer
PdfFiles == {"one.pdf", "two.pdf", "three.pdf"}

Min(x, y) == IF x <= y THEN x ELSE y

\* Variant: zoom in without the upper limit
handleZoomInUnclamped(prev) == prev + ZOOM_STEP

\* line 132: the updater of handleZoomIn
handleZoomIn(prev) == Min(prev + ZOOM_STEP, MAX_ZOOM)

\* line 133: the updater of handleZoomOut
handleZoomOut(prev) == Max(prev - ZOOM_STEP, MIN_ZOOM)

PdfUnchangedRest == UNCHANGED <<diffVars, callVars, appVars, jsVars, partVars>>

\* lines 338-343 and 103-109: a file is chosen; the viewer mounts with the
\* initial state, or, already mounted, runs the effect of [file], which
\* resets the zoom, before the next event
PdfFileChange ==
    /\ \E f \in PdfFiles \ {pdfFile} : pdfFile' = f
    /\ scale' = InitialScale
    /\ renderedScale' = InitialScale
    /\ PdfUnchangedRest

\* line 346: the viewer is closed and unmounted; its state is gone
PdfClose ==
    /\ pdfFile # "none"
    /\ pdfFile' = "none"
    /\ scale' = InitialScale
    /\ renderedScale' = InitialScale
    /\ PdfUnchangedRest

\* line 142: a click on the zoom-in button as it was last rendered
PdfZoomIn ==
    /\ pdfFile # "none"
    /\ ~(renderedScale >= MAX_ZOOM)
    /\ scale' = handleZoomIn(scale)
    /\ UNCHANGED <<pdfFile, renderedScale>>
    /\ PdfUnchangedRest

\* line 140: a click on the zoom-out button as it was last rendered
PdfZoomOut ==
    /\ pdfFile # "none"
    /\ ~(renderedScale <= MIN_ZOOM)
    /\ scale' = handleZoomOut(scale)
    /\ UNCHANGED <<pdfFile, renderedScale>>
    /\ PdfUnchangedRest

\* lines 135-145: the viewer renders with the current scale
PdfRender ==
    /\ pdfFile # "none"
    /\ renderedScale # scale
    /\ renderedScale' = scale
    /\ UNCHANGED <<pdfFile, scale>>
    /\ PdfUnchangedRest

PdfInit ==
    /\ PdfIdle
    /\ JsIdle
    /\ PartIdle
    /\ DiffIdle
    /\ CallsIdle
    /\ AppIdle

PdfNext ==
    \/ PdfFileChange
    \/ PdfClose
    \/ PdfZoomIn
    \/ PdfZoomOut
    \/ PdfRender

PdfSpec == PdfInit /\ [][PdfNext]_vars

\* ------------------------------------------------ src/index.js: AI stream
MaxStreams == 2

MaxChunks == 3

\* The texts of the chunks of a response stream; chunk.text may be empty
ChunkTexts == { <<>>, <<"a">>, <<"b">> }

JsInputTexts == { <<>>, <<"t">>, <<" ">> }

JsChatInputs == { <<>>, <<"q">> }

NotConfiguredMessage == <<"notConfigured">>

StreamErrorMessage == <<"streamError">>

\* lines 54-55; isRenderingPdf belongs to the PDF rendering, which is not
\* modelled
isBusy(s) == s.isLoading

canUseAi(s) == ~isBusy(s) /\ s.ai

\* Variant: the chunk text is shown instead of the accumulated response
fullResponseLastChunk(fullResponse, chunkText) == chunkText

\* line 211: fullResponse += chunkText
fullResponseAppend(fullResponse, chunkText) == fullResponse \o chunkText

\* Variant: the chunk goes to the first entry of the history
UpdateFirst(history, content) ==
    IF history = <<>> THEN history ELSE [history EXCEPT ![1].content = content]

\* lines 214-218 and 227-231: the content of the last entry is replaced
UpdateLast(history, content) ==
    IF history = <<>> THEN history ELSE [history EXCEPT ![Len(history)].content = content]

\* lines 187-205: handleAiStream up to its await; w is the pair of js and stream
handleAiStream(w, target) ==
    IF ~w.js.ai
    THEN [w EXCEPT !.js =
            IF target = "chat"
            THEN [w.js EXCEPT !.chatHistory = Append(@, [role |-> "model", content |-> NotConfiguredMessage])]
            ELSE [w.js EXCEPT !.outputText = NotConfiguredMessage]]
    ELSE [js |-> IF target = "chat"
                 THEN [w.js EXCEPT !.isLoading = TRUE, !.isChatting = TRUE,
                                   !.chatHistory = Append(@, [role |-> "model", content |-> <<>>])]
                 ELSE [w.js EXCEPT !.isLoading = TRUE, !.outputText = <<>>],
          stream |-> [status |-> "active", started |-> w.stream.started + 1, target |-> target,
                      fullResponse |-> <<>>, received |-> <<>>,
                      placeholderAt |-> IF target = "chat" THEN Len(w.js.chatHistory) + 1 ELSE 0]]

\* lines 242-252: handlePolishText and handleOrganizeNotes
handlePolishText(w) ==
    IF Trim(w.js.inputText) = <<>> THEN w ELSE handleAiStream(w, "output")

handleOrganizeNotes(w) ==
    IF Trim(w.js.inputText) = <<>> THEN w ELSE handleAiStream(w, "output")

\* lines 254-269
handleChatSubmit(w) ==
    IF Trim(w.js.chatInput) = <<>> \/ isBusy(w.js) THEN w
    ELSE LET newUserMessage == Trim(w.js.chatInput)
             updatedHistory == Append(w.js.chatHistory, [role |-> "user", content |-> newUserMessage])
         IN  handleAiStream([w EXCEPT !.js.chatHistory = updatedHistory, !.js.chatInput = <<>>], "chat")

\* lines 208-223: the body of the for await loop for one chunk
streamChunk(w, chunkText) ==
    LET withChunk == [w EXCEPT !.stream.received = Append(@, chunkText)]
    IN  IF chunkText = <<>> THEN withChunk
        ELSE LET fullResponse == fullResponseAppend(w.stream.fullResponse, chunkText)
             IN  [withChunk EXCEPT
                    !.stream.fullResponse = fullResponse,
                    !.js = IF w.stream.target = "chat"
                           THEN [w.js EXCEPT !.chatHistory = UpdateLast(@, fullResponse)]
                           ELSE [w.js EXCEPT !.outputText = fullResponse]]

\* lines 237-240: the finally block
streamFinally(w) ==
    [w EXCEPT !.js = IF w.stream.target = "chat"
                     THEN [w.js EXCEPT !.isLoading = FALSE, !.isChatting = FALSE]
                     ELSE [w.js EXCEPT !.isLoading = FALSE],
              !.stream = [status |-> "idle", started |-> w.stream.started]]

\* lines 224-236: the catch block, then the finally block
streamFailed(w) ==
    streamFinally([w EXCEPT
        !.js = IF w.stream.target = "chat"
               THEN [w.js EXCEPT !.chatHistory = UpdateLast(@, StreamErrorMessage)]
               ELSE [w.js EXCEPT !.outputText = StreamErrorMessage]])

JsWorld == [js |-> js, stream |-> stream]

JsBecomes(w) ==
    /\ js' = w.js
    /\ stream' = w.stream
    /\ UNCHANGED <<diffVars, callVars, appVars, pdfVars, partVars>>

\* lines 148-164: a key is saved in the modal, which the settings button
\* opens unless the application is busy
JsSaveApiKey ==
    /\ ~isBusy(js)
    /\ JsBecomes([JsWorld EXCEPT !.js.ai = TRUE])

\* lines 335-341
JsSetInputText ==
    /\ ~isBusy(js)
    /\ \E t \in JsInputTexts : JsBecomes([JsWorld EXCEPT !.js.inputText = t])

\* lines 376-382
JsSetChatInput ==
    /\ canUseAi(js)
    /\ \E t \in JsChatInputs : JsBecomes([JsWorld EXCEPT !.js.chatInput = t])

\* lines 242-246, button of line 344
JsPolishText ==
    /\ canUseAi(js)
    /\ js.inputText # <<>>
    /\ stream.started < MaxStreams
    /\ JsBecomes(handlePolishText(JsWorld))

\* lines 248-252, button of line 345
JsOrganizeNotes ==
    /\ canUseAi(js)
    /\ js.inputText # <<>>
    /\ stream.started < MaxStreams
    /\ JsBecomes(handleOrganizeNotes(JsWorld))

\* lines 254-269, form of lines 375-386
JsChatSubmit ==
    /\ canUseAi(js)
    /\ Trim(js.chatInput) # <<>>
    /\ stream.started < MaxStreams
    /\ JsBecomes(handleChatSubmit(JsWorld))

\* lines 208-223: the stream delivers a chunk
JsStreamChunk ==
    /\ stream.status = "active"
    /\ Len(stream.received) < MaxChunks
    /\ \E chunkText \in ChunkTexts : JsBecomes(streamChunk(JsWorld, chunkText))

\* lines 208, 237-240: the stream ends
JsStreamEnds ==
    /\ stream.status = "active"
    /\ JsBecomes(streamFinally(JsWorld))

\* lines 207-208, 224-240: the request or the stream fails
JsStreamFails ==
    /\ stream.status = "active"
    /\ JsBecomes(streamFailed(JsWorld))

JsInit ==
    /\ js \in { JsInitial, [JsInitial EXCEPT !.ai = TRUE] }
    /\ stream = NoStream
    /\ PdfIdle
    /\ PartIdle
    /\ DiffIdle
    /\ CallsIdle
    /\ AppIdle

JsNext ==
    \/ JsSaveApiKey
    \/ JsSetInputText
    \/ JsSetChatInput
    \/ JsPolishText
    \/ JsOrganizeNotes
    \/ JsChatSubmit
    \/ JsStreamChunk
    \/ JsStreamEnds
    \/ JsStreamFails

JsSpec == JsInit /\ [][JsNext]_vars

\* ------------------------------------- src/unnamed/part_000: process and chat
MaxPartRequests == 3

PartUserInputs == { <<>>, <<"n">> }

PartChatMessages == { <<"m">> }

\* What a request ends with: response.text, which may be empty, or a rejection
PartOutcomes == { Fulfilled(<<"out">>), Fulfilled(<<>>), Rejected("apiError") }

ProcessErrorOutput == <<"processError">>

ChatErrorText == <<"chatError">>

\* lines 112-118 and 129: handleProcess up to its await
handleProcess(w) ==
    IF Trim(w.part.userInput) = <<>> THEN w
    ELSE [w EXCEPT
            !.part = [w.part EXCEPT !.isLoading = TRUE, !.aiOutput = <<>>,
                                    !.chatHistory = <<>>, !.chat = 0],
            !.partSent = @ + 1,
            !.partJobs = @ \cup {[id |-> w.partSent + 1, kind |-> "process", tab |-> w.part.activeTab]}]

\* lines 134-153: handleProcess after its await
partProcessSettled(w, request, outcome) ==
    [w EXCEPT
        !.part = IF outcome.status = "fulfilled"
                 THEN [w.part EXCEPT !.aiOutput = outcome.value,
                                     !.chat = IF request.tab = "notes" THEN request.id ELSE @,
                                     !.isLoading = FALSE]
                 ELSE [w.part EXCEPT !.aiOutput = ProcessErrorOutput, !.isLoading = FALSE],
        !.partJobs = @ \ {request}]

\* lines 168-179: handleChat up to its await
handleChat(w) ==
    IF Trim(w.part.chatMessage) = <<>> \/ w.part.chat = 0 THEN w
    ELSE [w EXCEPT
            !.part = [w.part EXCEPT
                        !.chatHistory = Append(@, [role |-> "user", text |-> w.part.chatMessage]),
                        !.chatMessage = <<>>, !.isLoading = TRUE],
            !.partSent = @ + 1,
            !.partJobs = @ \cup {[id |-> w.partSent + 1, kind |-> "chat", tab |-> w.part.activeTab]}]

\* lines 180-189: handleChat after its await
partChatSettled(w, request, outcome) ==
    [w EXCEPT
        !.part = [w.part EXCEPT
                    !.chatHistory = Append(@, [role |-> "ai",
                                               text |-> IF outcome.status = "fulfilled"
                                                        THEN outcome.value ELSE ChatErrorText]),
                    !.isLoading = FALSE],
        !.partJobs = @ \ {request}]

PartWorld == [part |-> part, partJobs |-> partJobs, partSent |-> partSent]

PartBecomes(w) ==
    /\ part' = w.part
    /\ partJobs' = w.partJobs
    /\ partSent' = w.partSent
    /\ UNCHANGED <<diffVars, callVars, appVars, pdfVars, jsVars>>

\* lines 245 and 259: the chat form is rendered
PartChatFormShown == part.aiOutput # <<>> /\ part.activeTab = "notes"

\* line 223
PartSetUserInput ==
    \E t \in PartUserInputs : PartBecomes([PartWorld EXCEPT !.part.userInput = t])

\* lines 216-217
PartSetActiveTab ==
    \E t \in {"writing", "notes"} : PartBecomes([PartWorld EXCEPT !.part.activeTab = t])

\* line 275
PartSetChatMessage ==
    /\ PartChatFormShown
    /\ \E t \in PartChatMessages : PartBecomes([PartWorld EXCEPT !.part.chatMessage = t])

\* line 231: the button is disabled only while loading with no output shown
PartProcess ==
    /\ ~(part.isLoading /\ part.aiOutput = <<>>)
    /\ partSent < MaxPartRequests
    /\ PartBecomes(handleProcess(PartWorld))

\* lines 269-278: the form is submitted with its button enabled
PartChat ==
    /\ PartChatFormShown
    /\ ~part.isLoading
    /\ partSent < MaxPartRequests
    /\ PartBecomes(handleChat(PartWorld))

\* lines 129-153: the service answers a request of handleProcess
PartProcessSettles ==
    \E request \in partJobs : \E outcome \in PartOutcomes :
        /\ request.kind = "process"
        /\ PartBecomes(partProcessSettled(PartWorld, request, outcome))

\* lines 179-189: the service answers a request of handleChat
PartChatSettles ==
    \E request \in partJobs : \E outcome \in PartOutcomes :
        /\ request.kind = "chat"
        /\ PartBecomes(partChatSettled(PartWorld, request, outcome))

PartInit ==
    /\ PartIdle
    /\ PdfIdle
    /\ JsIdle
    /\ DiffIdle
    /\ CallsIdle
    /\ AppIdle

PartNext ==
    \/ PartSetUserInput
    \/ PartSetActiveTab
    \/ PartSetChatMessage
    \/ PartProcess
    \/ PartChat
    \/ PartProcessSettles
    \/ PartChatSettles

PartSpec == PartInit /\ [][PartNext]_vars

\* --------------------------------------------------------------- properties
\* Concatenation, in order, of the values of the segments whose type is in types
RECURSIVE ConcatValues(_, _)
ConcatValues(res, types) ==
    IF res = <<>> THEN <<>>
    ELSE (IF Head(res).type \in types THEN Head(res).value ELSE <<>>)
         \o ConcatValues(Tail(res), types)

SegmentTypes(res) == { res[k].type : k \in 1..Len(res) }

CountType(res, t) == Cardinality({ k \in 1..Len(res) : res[k].type = t })

Seg(v, t) == [value |-> v, type |-> t]

\* C1: once calculateDiff has returned, the values of the common and removed
\* segments, concatenated in order, are exactly the original string.
ReconstructsOriginal ==
    Returned => ConcatValues(result, {"common", "removed"}) = original

ReconstructsOriginalWitness ==
    /\ Returned
    /\ original # <<>>
    /\ SegmentTypes(result) = {"common", "removed", "added"}

\* C2: once calculateDiff has returned, the values of the common and added
\* segments, concatenated in order, are exactly the revised string.
ReconstructsRevised ==
    Returned => ConcatValues(result, {"common", "added"}) = revised

ReconstructsRevisedWitness ==
    /\ Returned
    /\ revised # <<>>
    /\ CountType(result, "added") >= 2
    /\ CountType(result, "common") >= 1
    /\ CountType(result, "removed") >= 1

\* Longest common subsequence, by enumeration of the subsequences of s
RECURSIVE IsSubsequence(_, _)
IsSubsequence(u, t) ==
    IF u = <<>> THEN TRUE
    ELSE IF t = <<>> THEN FALSE
    ELSE IF Head(u) = Head(t) THEN IsSubsequence(Tail(u), Tail(t))
    ELSE IsSubsequence(u, Tail(t))

RECURSIVE Pick(_, _, _)
Pick(s, S, k) ==
    IF k > Len(s) THEN <<>>
    ELSE (IF k \in S THEN <<s[k]>> ELSE <<>>) \o Pick(s, S, k + 1)

LCSLength(s, t) ==
    LET sizes == { Cardinality(S) : S \in { T \in SUBSET (1..Len(s)) : IsSubsequence(Pick(s, T, 1), t) } }
    IN  CHOOSE n \in sizes : \A k \in sizes : k <= n

\* C3: the number of common segments is the length of a longest common
\* subsequence of the two token sequences, so the number of added plus removed
\* segments is the least any alignment of the two sequences can have.
MinimalEdit ==
    Returned =>
        LET lcs == LCSLength(originalWords, revisedWords)
        IN  /\ CountType(result, "common") = lcs
            /\ CountType(result, "added") + CountType(result, "removed")
                 = Len(originalWords) + Len(revisedWords) - 2 * lcs

MinimalEditWitness ==
    /\ Returned
    /\ CountType(result, "common") >= 2
    /\ CountType(result, "added") >= 1
    /\ CountType(result, "removed") >= 1
    /\ original # revised

\* C4: calculateDiff(a, a) returns only common segments, and their values
\* concatenated in order are a.
IdentityAllCommon ==
    (Returned /\ original = revised) =>
        /\ \A k \in 1..Len(result) : result[k].type = "common"
        /\ ConcatValues(result, {"common"}) = original

IdentityAllCommonWitness ==
    /\ Returned
    /\ original = revised
    /\ Len(result) >= 3

\* C5: calculateDiff("", b) returns only added segments, whose values
\* concatenate to b, and no segment at all when b is empty.
EmptyOriginalAllAdded ==
    (Returned /\ original = <<>>) =>
        /\ \A k \in 1..Len(result) : result[k].type = "added"
        /\ ConcatValues(result, {"added"}) = revised
        /\ revised = <<>> => result = <<>>

\* C6: calculateDiff(a, "") returns only removed segments, whose values
\* concatenate to a.
EmptyRevisedAllRemoved ==
    (Returned /\ revised = <<>>) =>
        /\ \A k \in 1..Len(result) : result[k].type = "removed"
        /\ ConcatValues(result, {"removed"}) = original

\* C7: calculateDiff("", "") returns the empty sequence.
EmptyEmptyNoSegments ==
    (Returned /\ original = <<>> /\ revised = <<>>) => result = <<>>

\* A backtrack position where both indices are positive and the tokens differ
DifferingPosition ==
    /\ pc = "backtrack"
    /\ i > 0
    /\ j > 0
    /\ originalWords[i] # revisedWords[j]

\* C8: at a backtrack step with both indices positive and differing tokens,
\* a tie cell[i][j-1] = cell[i-1][j] makes the step emit revised[j-1] as an
\* added segment and decrement only j; a removed segment is emitted at such a
\* position only when cell[i][j-1] < cell[i-1][j].
TieBreakPrefersAdded ==
    [][ DifferingPosition =>
          /\ matrix[i][j - 1] = matrix[i - 1][j] =>
                /\ result' = <<Seg(revisedWords[j], "added")>> \o result
                /\ j' = j - 1
                /\ i' = i
          /\ (Len(result') = Len(result) + 1 /\ Head(result').type = "removed") =>
                matrix[i][j - 1] < matrix[i - 1][j] ]_vars

\* The state right after an added step taken on a tie
TieBreakPrefersAddedWitness ==
    /\ pc = "backtrack"
    /\ result # <<>>
    /\ Head(result).type = "added"
    /\ i > 0
    /\ j < Len(revisedWords)
    /\ originalWords[i] # revisedWords[j + 1]
    /\ matrix[i][j] = matrix[i - 1][j + 1]

\* C9 as stated: calculateDiff("a b c", "a c") is "a" common, " " common or
\* removed, "b" removed, " " removed, "c" common.
ExampleABCAsStated ==
    (Returned /\ original = ABC /\ revised = AC) =>
        /\ Len(result) = 5
        /\ result[1] = Seg(<<"a">>, "common")
        /\ result[2].value = <<" ">> /\ result[2].type \in {"common", "removed"}
        /\ result[3] = Seg(<<"b">>, "removed")
        /\ result[4] = Seg(<<" ">>, "removed")
        /\ result[5] = Seg(<<"c">>, "common")

\* C9 amended: calculateDiff("a b c", "a c") is "a" common, " " removed,
\* "b" removed, " " common, "c" common.
ExampleABC ==
    (Returned /\ original = ABC /\ revised = AC) =>
        result = << Seg(<<"a">>, "common"), Seg(<<" ">>, "removed"),
                    Seg(<<"b">>, "removed"), Seg(<<" ">>, "common"),
                    Seg(<<"c">>, "common") >>

ExampleABCWitness ==
    /\ Returned
    /\ original = ABC
    /\ revised = AC
    /\ Len(result) = 5

\* C10 as stated: calculateDiff("the cat sat", "the dog sat") is the four
\* segments "the " common, "cat" removed, "dog" added, " sat" common.
ExampleCatDogAsStated ==
    (Returned /\ original = TheCatSat /\ revised = TheDogSat) =>
        result = << Seg(<<"t", "h", "e", " ">>, "common"), Seg(<<"c", "a", "t">>, "removed"),
                    Seg(<<"d", "o", "g">>, "added"), Seg(<<" ", "s", "a", "t">>, "common") >>

\* C10 amended: calculateDiff("the cat sat", "the dog sat") is the six
\* segments "the" common, " " common, "cat" removed, "dog" added, " " common,
\* "sat" common.
ExampleCatDog ==
    (Returned /\ original = TheCatSat /\ revised = TheDogSat) =>
        result = << Seg(<<"t", "h", "e">>, "common"), Seg(<<" ">>, "common"),
                    Seg(<<"c", "a", "t">>, "removed"), Seg(<<"d", "o", "g">>, "added"),
                    Seg(<<" ">>, "common"), Seg(<<"s", "a", "t">>, "common") >>

ExampleCatDogWitness ==
    /\ Returned
    /\ original = TheCatSat
    /\ revised = TheDogSat
    /\ Len(result) = 6

\* The values, in order, of the segments whose type is in types
RECURSIVE ValuesOf(_, _)
ValuesOf(res, types) ==
    IF res = <<>> THEN <<>>
    ELSE (IF Head(res).type \in types THEN <<Head(res).value>> ELSE <<>>)
         \o ValuesOf(Tail(res), types)

\* C11: every segment carries the value of exactly one token: the common and
\* removed values are the original tokens one by one, the common and added
\* values are the revised tokens one by one, and the number of segments is
\* tokens(a) + tokens(b) minus the number of common segments.
OneSegmentPerToken ==
    Returned =>
        /\ ValuesOf(result, {"common", "removed"}) = originalWords
        /\ ValuesOf(result, {"common", "added"}) = revisedWords
        /\ Len(result) = Len(originalWords) + Len(revisedWords) - CountType(result, "common")

\* Two adjacent segments of the same type were left apart
OneSegmentPerTokenWitness ==
    /\ Returned
    /\ \E k \in 1..(Len(result) - 1) :
          result[k].type = "added" /\ result[k + 1].type = "added"
    /\ \E k \in 1..(Len(result) - 1) :
          result[k].type = "common" /\ result[k + 1].type = "common"

\* tokens.join('')
RECURSIVE Join(_)
Join(tokens) == IF tokens = <<>> THEN <<>> ELSE Head(tokens) \o Join(Tail(tokens))

\* C12: joining the tokens of s.split(/(\s+)/) in order, with no separator,
\* gives s back.
SplitJoinRoundTrip ==
    pc # "start" =>
        /\ Join(originalWords) = original
        /\ Join(revisedWords) = revised

\* An input with leading and trailing whitespace has been tokenized
SplitJoinRoundTripWitness ==
    /\ pc = "fill"
    /\ Len(original) >= 3
    /\ IsWhitespace(original[1])
    /\ IsWhitespace(original[Len(original)])
    /\ Len(originalWords) >= 5

AllWhitespace(t) == \A k \in 1..Len(t) : IsWhitespace(t[k])

NoWhitespace(t) == \A k \in 1..Len(t) : ~IsWhitespace(t[k])

\* Non-empty runs of one kind, no two neighbours of the same kind
MaximalRuns(tokens) ==
    /\ \A k \in 1..Len(tokens) :
          tokens[k] # <<>> /\ (AllWhitespace(tokens[k]) \/ NoWhitespace(tokens[k]))
    /\ \A k \in 1..(Len(tokens) - 1) :
          AllWhitespace(tokens[k]) # AllWhitespace(tokens[k + 1])

\* C13: every token, and so every segment value, is a non-empty maximal run
\* of whitespace characters or of non-whitespace characters.
TokensAreMaximalRuns ==
    /\ pc # "start" => MaximalRuns(originalWords) /\ MaximalRuns(revisedWords)
    /\ Returned => \A k \in 1..Len(result) : result[k].value # <<>>

\* C14: calculateDiff terminates for every pair of inputs, empty ones
\* included: the backtrack loop ends by its condition, with both indices 0.
Terminates == <>(pc = "done" /\ i = 0 /\ j = 0)

TerminatesWitness ==
    /\ pc = "done"
    /\ i = 0
    /\ j = 0
    /\ original = <<>>
    /\ Len(result) >= 4

\* The table fill has ended and the backtrack has not started
TableFilled == pc = "fill" /\ fillI > Len(originalWords)

\* C20: after the table fill, matrix[r][c] is the length of a longest common
\* subsequence of the first r original tokens and the first c revised tokens.
TableHoldsLCSLengths ==
    TableFilled =>
        \A r \in 0..Len(originalWords) : \A c \in 0..Len(revisedWords) :
            matrix[r][c] = LCSLength(SubSeq(originalWords, 1, r), SubSeq(revisedWords, 1, c))

TableHoldsLCSLengthsWitness ==
    /\ TableFilled
    /\ Len(originalWords) >= 3
    /\ Len(revisedWords) >= 3
    /\ matrix[Len(originalWords)][Len(revisedWords)] >= 2
    /\ matrix[Len(originalWords)][Len(revisedWords)] < Len(originalWords)

\* calculateDiff run alone from start to return, with the operators above
RECURSIVE FillFrom(_, _, _, _)
FillFrom(m, ow, rw, r) ==
    IF r > Len(ow) THEN m ELSE FillFrom(FillRowFrom(m, ow, rw, r, 1), ow, rw, r + 1)

RECURSIVE BacktrackFrom(_, _, _, _, _, _)
BacktrackFrom(m, ow, rw, a, b, res) ==
    IF ~LoopContinues(a, b) THEN res
    ELSE IF IsCommon(ow, rw, a, b)
         THEN BacktrackFrom(m, ow, rw, a - 1, b - 1, Unshift(CommonSegment(ow, rw, a, b), res))
    ELSE IF TakeAdded(m, a, b)
         THEN BacktrackFrom(m, ow, rw, a, b - 1, Unshift(AddedSegment(ow, rw, a, b), res))
    ELSE IF TakeRemoved(m, a, b)
         THEN BacktrackFrom(m, ow, rw, a - 1, b, Unshift(RemovedSegment(ow, rw, a, b), res))
    ELSE res

RunAlone(a, b) ==
    LET ow == Split(a)
        rw == Split(b)
        m  == FillFrom(ZeroMatrix(Len(ow), Len(rw)), ow, rw, 1)
    IN  BacktrackFrom(m, ow, rw, Len(ow), Len(rw), <<>>)

CallReturned(k) == calls[k].pc \in {"done", "fallback"}

\* The arrays invocation k refers to, as they are in the given heaps
ObjectsOf(c, ms, rs) ==
    << IF c.matrix = 0 THEN <<>> ELSE ms[c.matrix],
       IF c.result = 0 THEN <<>> ELSE rs[c.result] >>

\* C15 (state part): whatever the interleaving, each of two invocations
\* returns what it returns when run alone, so equal inputs give equal results.
InterleavedCallsReturnOwnDiff ==
    /\ \A k \in CallIds :
          CallReturned(k) => results[calls[k].result] = RunAlone(calls[k].original, calls[k].revised)
    /\ (CallReturned(1) /\ CallReturned(2)
          /\ calls[1].original = calls[2].original /\ calls[1].revised = calls[2].revised)
       => results[calls[1].result] = results[calls[2].result]

\* C15: calculateDiff is a pure function; when two invocations are
\* interleaved step by step, a step of one leaves the table, the indices and
\* the result of the other as they were, and each returns its own diff.
CallsAreIndependent ==
    /\ []InterleavedCallsReturnOwnDiff
    /\ [][ \A k \in CallIds :
             calls'[k] # calls[k] =>
                \A o \in CallIds \ {k} :
                   /\ calls'[o] = calls[o]
                   /\ ObjectsOf(calls[o], matrices', results') = ObjectsOf(calls[o], matrices, results) ]_vars

\* Both invocations have returned after running interleaved, on equal and on
\* different inputs
CallsAreIndependentWitness ==
    /\ CallReturned(1)
    /\ CallReturned(2)
    /\ calls[1].result # calls[2].result
    /\ calls[1].matrix = 2
    /\ calls[1].result = 1
    /\ Len(results[calls[1].result]) >= 2
    /\ calls[1].original # calls[2].original

\* ------------------------------------------------ properties of the application
\* The step in which handleProceedWithOrganization ends without a result
OrganizationFailureStep ==
    /\ job.kind = "notes"
    /\ job' = NoJob
    /\ app'.analysisResult = NoResult

\* The step in which handleProceedWithOrganization sends its request
OrganizationStartStep == job.kind = "none" /\ job'.kind = "notes"

\* C16 as stated: when the AI call of handleProceedWithOrganization fails,
\* the error is set and analysisResult, multiAnalysisResults,
\* editableRevisedText, chatHistory, isDiffView and text have the values they
\* had before the operation was triggered (no new text having arrived while
\* the request was in flight).
OrganizationFailureRestoresState ==
    [][ (OrganizationFailureStep /\ app.text = job.captured.text) =>
          /\ app'.error # Null
          /\ app'.analysisResult = job.captured.analysisResult
          /\ app'.multiAnalysisResults = job.captured.multiAnalysisResults
          /\ app'.editableRevisedText = job.captured.editableRevisedText
          /\ app'.chatHistory = job.captured.chatHistory
          /\ app'.isDiffView = job.captured.isDiffView
          /\ app'.text = job.captured.text ]_vars

\* C16 amended: when the AI call of handleProceedWithOrganization fails, the
\* failure handler sets the error and isLoading = false and changes nothing
\* else; the earlier analysisResult, multiAnalysisResults,
\* editableRevisedText, chatHistory and isDiffView are not kept, they were
\* cleared (and text left alone) when the operation was triggered.
OrganizationFailureOnlySetsError ==
    /\ [][ OrganizationFailureStep =>
             /\ app'.error \in {ApiError, EmptyResponseError, InvalidFormatError}
             /\ app' = [app EXCEPT !.error = app'.error, !.isLoading = FALSE] ]_vars
    /\ [][ OrganizationStartStep =>
             /\ app'.analysisResult = NoResult
             /\ app'.multiAnalysisResults = EmptyResults
             /\ app'.editableRevisedText = <<>>
             /\ app'.chatHistory = <<>>
             /\ app'.isDiffView = FALSE
             /\ app'.text = app.text ]_vars

\* A second organization has failed: what the first one had produced is gone
OrganizationFailureOnlySetsErrorWitness ==
    /\ job = NoJob
    /\ app.mode = "notes"
    /\ ~app.isLoading
    /\ app.error = InvalidFormatError
    /\ app.analysisResult = NoResult
    /\ app.editableRevisedText = <<>>
    /\ sent[app.modelProvider] = 2

\* The step in which handleSendChatMessage ends in its catch block
ChatFailureStep ==
    /\ chatJob.kind = "chat"
    /\ chatJob' = NoJob
    /\ app'.error = ChatFailedError

\* The step in which handleSendChatMessage sends its request
ChatSendStep == chatJob.kind = "none" /\ chatJob'.kind = "chat"

Malformed == { PartJson, NotJson, EmptyText }

\* C18: when the response to a structured request is malformed, no analysis
\* result is stored for that request and an invalid-format error is surfaced
\* (for the notes request as the error, for a writing request as the entry of
\* the provider).
MalformedResponseStoresNothing ==
    [][ /\ job.kind = "notes" =>
             \A p \in DOMAIN job.outcomes : \A t \in Malformed :
                World' = organizationSettled([World EXCEPT !.job.outcomes[p] = Fulfilled(t)])
                   => /\ app'.analysisResult = NoResult
                      /\ app'.error \in {InvalidFormatError, EmptyResponseError}
        /\ (job.kind = "writing" /\ job' = NoJob) =>
             \A p \in Providers : \A t \in Malformed :
                (\/ job.outcomes[p] = Fulfilled(t)
                 \/ /\ job.outcomes[p] = Pending
                    /\ World' = writingSuggestionsSettled([World EXCEPT !.job.outcomes[p] = Fulfilled(t)]))
                   => app'.multiAnalysisResults[p] = [error |-> IncompleteError] ]_vars

\* C19: a request goes out only in the step of a user trigger (writing
\* analysis, organize notes, chat send), at most one per provider in that
\* step; the steps that handle a response, failed or malformed ones included,
\* send nothing.
NoAutomaticRetry ==
    [][ sent' # sent =>
          /\ \/ job.kind = "none" /\ job'.kind \in {"writing", "notes"}
             \/ chatJob.kind = "none" /\ chatJob'.kind = "chat"
          /\ \A p \in Providers : sent'[p] <= sent[p] + 1 ]_vars

\* A malformed response was handled and nothing is in flight after it
NoAutomaticRetryWitness ==
    /\ job = NoJob
    /\ chatJob = NoJob
    /\ app.error = InvalidFormatError
    /\ TotalSent = 1

\* --------------------------------------------- more properties of the diff
\* C22: within every maximal run of non-common segments of the result all
\* removed segments come before all added segments: no added segment is
\* directly followed by a removed one (the backtrack, which builds the result
\* from its end, never takes the added branch right after the removed one).
RemovedBeforeAdded ==
    /\ [](\A k \in 1..(Len(result) - 1) :
            ~(result[k].type = "added" /\ result[k + 1].type = "removed"))
    /\ [][ (pc = "backtrack" /\ result # <<>> /\ Head(result).type = "removed"
             /\ Len(result') = Len(result) + 1)
           => Head(result').type # "added" ]_vars

\* A run that holds both kinds has been returned
RemovedBeforeAddedWitness ==
    /\ Returned
    /\ \E k \in 1..(Len(result) - 1) :
          result[k].type = "removed" /\ result[k + 1].type = "added"

\* C23: the final else branch of the backtrack loop is never taken: whenever
\* the loop condition holds, the common, the added or the removed branch is.
FallbackUnreachable ==
    /\ pc # "fallback"
    /\ (pc = "backtrack" /\ LoopContinues(i, j)) =>
          \/ IsCommon(originalWords, revisedWords, i, j)
          \/ TakeAdded(matrix, i, j)
          \/ TakeRemoved(matrix, i, j)

\* The backtrack stands in the first column with tokens of the original left
FallbackUnreachableWitness ==
    /\ pc = "backtrack"
    /\ i > 0
    /\ j = 0
    /\ result # <<>>

\* The shape of the array s.split(/(\s+)/) (positions counted from 1 here)
TokenListShape(s, tokens) ==
    /\ Len(tokens) >= 1
    /\ Len(tokens) % 2 = 1
    /\ \A k \in 1..Len(tokens) :
          IF k % 2 = 0
          THEN tokens[k] # <<>> /\ AllWhitespace(tokens[k])
          ELSE /\ NoWhitespace(tokens[k])
               /\ tokens[k] = <<>> => k \in {1, Len(tokens)}
    /\ tokens[1] = <<>> => (s = <<>> \/ IsWhitespace(s[1]))
    /\ tokens[Len(tokens)] = <<>> => (s = <<>> \/ IsWhitespace(s[Len(s)]))

\* C30: the token list has odd length >= 1, whitespace runs at the odd
\* 0-based positions, whitespace-free tokens at the even ones, an empty token
\* only first or last (input empty, or starting or ending with whitespace);
\* so calculateDiff returns at least one segment.
TokenListAlternates ==
    /\ pc # "start" => /\ TokenListShape(original, originalWords)
                       /\ TokenListShape(revised, revisedWords)
    /\ Returned => Len(result) >= 1

\* Tokens of an input that starts with whitespace, the diff returned
TokenListAlternatesWitness ==
    /\ Returned
    /\ Len(originalWords) = 3
    /\ originalWords[1] = <<>>
    /\ originalWords[3] # <<>>
    /\ Len(revisedWords) = 1
    /\ revisedWords[1] = <<>>

\* -------------------------------------- more properties of the application
\* C24: in every reachable state, mode = null implies that no analysis
\* output is held: analysisResult is null, multiAnalysisResults is empty,
\* editableRevisedText is empty and chatHistory is empty.
NullModeHoldsNoOutput ==
    app.mode = Null =>
        /\ app.analysisResult = NoResult
        /\ app.multiAnalysisResults = EmptyResults
        /\ app.editableRevisedText = <<>>
        /\ app.chatHistory = <<>>

\* An entry of multiAnalysisResults: an error object, or an analysis whose
\* four fields are strings
IsErrorEntry(entry) == DOMAIN entry = {"error"}

IsAnalysisEntry(entry) ==
    /\ {"grammar", "typos", "logic", "revisedText"} \subseteq DOMAIN entry
    /\ entry.grammar = "string"
    /\ entry.typos = "string"
    /\ entry.logic = "string"
    /\ entry.revisedText = "string"

\* The step in which handleGetWritingSuggestions completes after its await
WritingCompletionStep == job.kind = "writing" /\ job' = NoJob

\* C25: when handleGetWritingSuggestions completes, multiAnalysisResults has
\* exactly one entry per provider, each an analysis with four string fields
\* or an error object, and the entry of a provider is the one its own outcome
\* gives, whatever the outcome of the provider that settles last.
WritingEntriesIndependent ==
    [][ WritingCompletionStep =>
          /\ DOMAIN app'.multiAnalysisResults = Providers
          /\ \A p \in Providers :
                /\ IsErrorEntry(app'.multiAnalysisResults[p])
                      \/ IsAnalysisEntry(app'.multiAnalysisResults[p])
                /\ job.outcomes[p] # Pending =>
                      app'.multiAnalysisResults[p] = WritingEntry(job.outcomes[p])
                /\ job.outcomes[p].status = "rejected" =>
                      app'.multiAnalysisResults[p] = [error |-> job.outcomes[p].reason] ]_vars

\* A writing analysis has completed with an analysis from one provider next
\* to the errors of the two others
WritingEntriesIndependentWitness ==
    /\ job = NoJob
    /\ ~app.isLoading
    /\ DOMAIN app.multiAnalysisResults = Providers
    /\ IsErrorEntry(app.multiAnalysisResults["gemini"])
    /\ IsAnalysisEntry(app.multiAnalysisResults["openai"])
    /\ app.multiAnalysisResults["deepseek"] = [error |-> IncompleteError]

\* The step in which handleSendChatMessage completes after its await
ChatCompletionStep == chatJob.kind = "chat" /\ chatJob' = NoJob

IsPrefix(p, str) == Len(p) <= Len(str) /\ SubSeq(str, 1, Len(p)) = p

\* C26: when a chat request completes, only the trailing placeholder "..."
\* is taken out of editableRevisedText and nothing else is removed, whatever
\* happened to the text while the request was in flight.
ChatCompletionRemovesOnlyPlaceholder ==
    [][ ChatCompletionStep =>
          LET before == app.editableRevisedText
              n == Len(before)
          IN  IF n >= 3 /\ SubSeq(before, n - 2, n) = thinkingMessage
              THEN IsPrefix(SubSeq(before, 1, n - 3), app'.editableRevisedText)
              ELSE IsPrefix(before, app'.editableRevisedText) ]_vars

\* C27: every analysis request in flight is followed by isLoading = false and
\* every chat request in flight by isChatLoading = false, whatever the
\* service answers, provided it answers.
LoadingEnds ==
    /\ (job # NoJob \/ app.isLoading) ~> (job = NoJob /\ ~app.isLoading)
    /\ (chatJob # NoJob \/ app.isChatLoading) ~> (chatJob = NoJob /\ ~app.isChatLoading)

\* A chat request has failed and its loading flag is down again
LoadingEndsWitness ==
    /\ chatJob = NoJob
    /\ job = NoJob
    /\ ~app.isChatLoading
    /\ ~app.isLoading
    /\ app.error = ChatFailedError
    /\ TotalSent = 2

\* ---------------------------------------------- properties of the PDF viewer
\* C29: the zoom scale stays within [0.5, 2.5] and is 1.0 plus a multiple of
\* 0.25; a file change resets it to 1.0; zoom-in at 2.5 and zoom-out at 0.5
\* leave it unchanged.
ZoomStaysInRange ==
    /\ [](/\ MIN_ZOOM <= scale
          /\ scale <= MAX_ZOOM
          /\ \E k \in -2..6 : scale = InitialScale + k * ZOOM_STEP)
    /\ [][ pdfFile' # pdfFile => scale' = InitialScale ]_vars
    /\ [][ (scale = MAX_ZOOM /\ scale' = handleZoomIn(scale)) => scale' = scale ]_vars
    /\ [][ (scale = MIN_ZOOM /\ scale' = handleZoomOut(scale)) => scale' = scale ]_vars

\* The scale is at the upper limit while the zoom-in button, rendered two
\* steps earlier, is still enabled
ZoomStaysInRangeWitness ==
    /\ pdfFile # "none"
    /\ scale = MAX_ZOOM
    /\ renderedScale = MAX_ZOOM - 2 * ZOOM_STEP

\* ---------------------------------------- properties of the stream handler
RECURSIVE ConcatAll(_)
ConcatAll(texts) == IF texts = <<>> THEN <<>> ELSE Head(texts) \o ConcatAll(Tail(texts))

\* What the target of the running call shows
Displayed ==
    IF stream.target = "chat"
    THEN js.chatHistory[Len(js.chatHistory)].content
    ELSE js.outputText

\* The step in which a non-empty chunk arrives
NonEmptyChunkStep ==
    /\ stream.status = "active"
    /\ stream'.status = "active"
    /\ Len(stream'.received) = Len(stream.received) + 1
    /\ stream'.received[Len(stream'.received)] # <<>>

\* C21: while handleAiStream consumes a stream, after each non-empty chunk
\* the displayed target is the concatenation, in arrival order, of all chunk
\* texts received so far; for target chat the entry updated is the model
\* placeholder the call appended, every other entry, the user messages among
\* them, staying as it is.
StreamShowsChunksSoFar ==
    /\ [](stream.status = "active" =>
            /\ Displayed = ConcatAll(stream.received)
            /\ stream.target = "chat" =>
                  /\ Len(js.chatHistory) = stream.placeholderAt
                  /\ js.chatHistory[stream.placeholderAt].role = "model"
                  /\ stream.placeholderAt > 1
                  /\ js.chatHistory[stream.placeholderAt - 1].role = "user")
    /\ [][ NonEmptyChunkStep =>
             IF stream.target = "chat"
             THEN /\ Len(js'.chatHistory) = Len(js.chatHistory)
                  /\ \A k \in 1..Len(js.chatHistory) :
                        k # stream.placeholderAt => js'.chatHistory[k] = js.chatHistory[k]
                  /\ js'.chatHistory[stream.placeholderAt] =
                        [role |-> "model", content |-> ConcatAll(stream'.received)]
                  /\ js'.outputText = js.outputText
             ELSE /\ js'.outputText = ConcatAll(stream'.received)
                  /\ js'.chatHistory = js.chatHistory ]_vars

\* The second chat of a session has received an empty and two non-empty chunks
StreamShowsChunksSoFarWitness ==
    /\ stream.status = "active"
    /\ stream.target = "chat"
    /\ stream.placeholderAt = 4
    /\ Len(stream.received) = 3
    /\ stream.received[2] = <<>>
    /\ js.chatHistory[4].content = <<"a", "b">>

\* -------------------------------------------- properties of part_000's chat
\* C28: chatHistory alternates user and ai messages, starting with a user
\* message, so every ai message directly follows the user message it answers.
ChatHistoryAlternates ==
    \A k \in 1..Len(part.chatHistory) :
        part.chatHistory[k].role = IF k % 2 = 1 THEN "user" ELSE "ai"

====
